---- MODULE Spec2Model ----
(***************************************************************************)
(* Model of the Google News extraction pipeline of                         *)
(* igorvboas/news-extraction.                                              *)
(*                                                                         *)
(* Three variants of the pipeline live in the repository and all are       *)
(* modelled, selected by the variable `variant`:                           *)
(*   "scraper" : src/google_news_scraper.py                                *)
(*   "main"    : src/main.py (the same search_news loop and                *)
(*               _extract_article_data as "scraper"; a failure of the      *)
(*               fetch is re-raised instead of answered with [])           *)
(*   "backup"  : src/main_backup.py                                        *)
(*                                                                         *)
(* The link resolution, get_final_url_complete, is modelled from           *)
(* src/main_backup.py ("backup") and src/resolutor_de_url.py               *)
(* ("resolutor"), with the loop of the /search endpoint of                 *)
(* src/main_backup.py that calls it for each article.  The                 *)
(* browser-fallback flag and the worker pool of the batch resolution are   *)
(* not in these files: they follow sections 4.5 and 4.6 of the             *)
(* specification.                                                          *)
(*                                                                         *)
(* Text is a sequence of one-character strings.  A relative-time phrase is *)
(* a sequence of items [n, w]: the digits n followed by the word w and     *)
(* "atrás"; an item whose word no pattern knows is any other text.         *)
(***************************************************************************)
EXTENDS Integers, Sequences, FiniteSets, TLC

VARIABLES
    pc,             \* position of the run
    variant,        \* which file's pipeline runs
    person_name,    \* search_news argument
    days,           \* search_news argument (0: no window)
    max_results,    \* search_news argument
    doc,            \* the parsed document: its nodes in document order
    selIdx,         \* index of the next structural selector to try
    evaluated,      \* structural selectors evaluated so far, in order
    usedFallback,   \* whether the fallback scan ran
    found_articles, \* the candidate list
    pos,            \* number of candidates the loop has taken
    articles,       \* accumulated records
    log,            \* one entry per examined candidate (history)
    result,         \* what search_news returned
    time_text,      \* input of _parse_time_ago (parser runs)
    parsed,         \* output of _parse_time_ago (parser runs)
    link_node,      \* node whose link is extracted (link runs)
    link_out,       \* the link extracted from it (link runs)
    units,          \* one resolution unit per link of a batch (resolver runs)
    sessions,       \* browser sessions created so far (resolver runs)
    results,        \* the results collection of a batch (resolver runs)
    workers,        \* worker cap of the batch (resolver runs)
    use_browser,    \* flag enabling the browser tier (resolver runs)
    resolve_final   \* the endpoint's resolve_final argument (resolver runs)

vars == <<pc, variant, person_name, days, max_results, doc, selIdx, evaluated,
          usedFallback, found_articles, pos, articles, log, result,
          time_text, parsed, link_node, link_out,
          units, sessions, results, workers, use_browser, resolve_final>>

resolverVars == <<units, sessions, results, workers, use_browser,
                  resolve_final>>

pipelineVars == <<variant, person_name, days, max_results, doc, selIdx,
                  evaluated, usedFallback, found_articles, pos, articles,
                  log, result>>

-----------------------------------------------------------------------------
(* Bounds of the model *)

MaxDocLen == 3      \* nodes in a document
MaxResultsBound == 2 \* largest max_results requested
MaxItems == 2       \* items in a relative-time phrase
MaxTick == 1        \* clock ticks between two readings of datetime.now()
MaxHrefLen == 2     \* characters in an href (link runs)
MaxAnchors == 2     \* descendant <a> elements of a node (link runs)

Variants == {"scraper", "main", "backup"}

-----------------------------------------------------------------------------
(* Text helpers: str.lower, str.strip, len, `in`, str.startswith *)

Lower(c) ==
    CASE c = "A" -> "a"
      [] c = "B" -> "b"
      [] c = "X" -> "x"
      [] OTHER -> c

LowerText(t) == [i \in 1..Len(t) |-> Lower(t[i])]

RECURSIVE LStrip(_)
LStrip(t) == IF t # <<>> /\ Head(t) = " " THEN LStrip(Tail(t)) ELSE t

RECURSIVE RStrip(_)
RStrip(t) ==
    IF t # <<>> /\ t[Len(t)] = " " THEN RStrip(SubSeq(t, 1, Len(t) - 1)) ELSE t

Strip(t) == RStrip(LStrip(t))

\* needle in hay (Python's substring test; the empty needle is in every text)
Contains(needle, hay) ==
    \E i \in 1..(Len(hay) - Len(needle) + 1) :
        SubSeq(hay, i, i + Len(needle) - 1) = needle

ContainsNoCase(needle, hay) == Contains(LowerText(needle), LowerText(hay))

StartsWith(t, prefix) ==
    Len(t) >= Len(prefix) /\ SubSeq(t, 1, Len(prefix)) = prefix

\* re.search(re.compile(pattern, re.IGNORECASE), text) for a pattern made of
\* literal characters and the wildcard "."
RegexSearchNoCase(pattern, text) ==
    \E i \in 1..(Len(text) - Len(pattern) + 1) :
        \A k \in 1..Len(pattern) :
            pattern[k] = "." \/ Lower(pattern[k]) = Lower(text[i + k - 1])

\* Absent values (Python's None / a missing dict key)
NoText == <<"<none>">>
NoTime == -1

-----------------------------------------------------------------------------
(* RelativeTimeParser: _parse_time_ago *)

\* datetime.now() in minutes since datetime.min, and the smallest datetime
Now0 == 1065486240
MinDatetime == 0

MinutesPerHour == 60
MinutesPerDay == 1440
DaysPerWeek == 7
DaysPerMonth == 30
DaysPerYear == 365

\* minutes in one unit of timedelta(**{unit: 1})
UnitMinutes(unit) ==
    CASE unit = "minutes" -> 1
      [] unit = "hours" -> MinutesPerHour
      [] unit = "days" -> MinutesPerDay
      [] unit = "weeks" -> DaysPerWeek * MinutesPerDay

\* google_news_scraper.py / main.py: the dict `patterns` in insertion order,
\* with the branch of the if/elif chain each unit takes
PatternsScraper ==
    << [words |-> {"hora", "horas"},       unit |-> "hours",   factor |-> 1],
       [words |-> {"dia", "dias"},         unit |-> "days",    factor |-> 1],
       [words |-> {"semana", "semanas"},   unit |-> "weeks",   factor |-> 1],
       [words |-> {"mês"},                 unit |-> "days",    factor |-> DaysPerMonth],
       [words |-> {"meses"},               unit |-> "days",    factor |-> DaysPerMonth],
       [words |-> {"ano", "anos"},         unit |-> "days",    factor |-> DaysPerYear],
       [words |-> {"minuto", "minutos"},   unit |-> "minutes", factor |-> 1] >>

\* main_backup.py: the list `rules`
RulesBackup ==
    << [words |-> {"minuto", "minutos"},   unit |-> "minutes", factor |-> 1],
       [words |-> {"hora", "horas"},       unit |-> "hours",   factor |-> 1],
       [words |-> {"dia", "dias"},         unit |-> "days",    factor |-> 1],
       [words |-> {"semana", "semanas"},   unit |-> "days",    factor |-> DaysPerWeek],
       [words |-> {"mês", "mes", "meses", "mêses"},
                                           unit |-> "days",    factor |-> DaysPerMonth],
       [words |-> {"ano", "anos"},         unit |-> "days",    factor |-> DaysPerYear] >>

TimeRules(v) == IF v = "backup" THEN RulesBackup ELSE PatternsScraper

\* time_text.lower() on the word of an item
LowerWord(w) ==
    CASE w = "Horas" -> "horas"
      [] w = "DIAS" -> "dias"
      [] OTHER -> w

\* re.search(pattern, t): the leftmost item the pattern matches, 0 when none
RECURSIVE SearchFrom(_, _, _)
SearchFrom(rule, t, i) ==
    IF i > Len(t) THEN 0
    ELSE IF LowerWord(t[i].w) \in rule.words THEN i
    ELSE SearchFrom(rule, t, i + 1)

ReSearch(rule, t) == SearchFrom(rule, t, 1)

\* FirstRuleFrom choosing the last rule of the table that matches
RECURSIVE LastRuleFrom(_, _, _)
LastRuleFrom(rules, t, k) ==
    IF k > Len(rules) THEN 0
    ELSE LET later == LastRuleFrom(rules, t, k + 1)
         IN  IF later # 0 THEN later
             ELSE IF ReSearch(rules[k], t) # 0 THEN k ELSE 0

\* index of the first rule of the table that matches, 0 when none
RECURSIVE FirstRuleFrom(_, _, _)
FirstRuleFrom(rules, t, k) ==
    IF k > Len(rules) THEN 0
    ELSE IF ReSearch(rules[k], t) # 0 THEN k
    ELSE FirstRuleFrom(rules, t, k + 1)

\* now - timedelta(...): OverflowError below datetime.min, caught by the
\* except clause, which returns None
MinusDelta(now, minutes) ==
    IF now - minutes < MinDatetime THEN NoTime ELSE now - minutes

ParseTimeAgo(v, t, now) ==
    LET rules == TimeRules(v)
        k == FirstRuleFrom(rules, t, 1)
    IN  IF k = 0 THEN NoTime
        ELSE LET value == t[ReSearch(rules[k], t)].n
             IN  MinusDelta(now, value * rules[k].factor * UnitMinutes(rules[k].unit))

\* _is_within_days
IsWithinDays(article_time, d, now) ==
    IF article_time = NoTime THEN FALSE
    ELSE article_time >= now - d * MinutesPerDay

-----------------------------------------------------------------------------
(* The parsed document.  A node carries what the pipeline reads of it:     *)
(*   tag     element name                                                  *)
(*   marks   the class / attribute selectors the node itself matches       *)
(*   str     its .string (NoText when it has more than one child)          *)
(*   text    its get_text()                                                *)
(*   sub     selector -> text of the first descendant the selector matches *)
(*   times   the same for the relative-time selectors (phrases)            *)
(*   href    its own href attribute (NoText when it has none)              *)
(*   anchors the href of each descendant <a>, in document order            *)
(*   faulty  extraction of this node raises an exception                   *)
(* A document is a sequence of handles of such nodes.                      *)
(***************************************************************************)

TBoth   == <<"a", ".", " ", "A", "b", " ", "x", "x", "x", "x">>
TOnlyAb == <<"x", "x", " ", "A", "b", " ", "x", "x", "x", "x">>
TOther  == <<"x", "x", "x", "x", "x", "x", "x", "x", "x", "x">>
TShort  == <<"A", "b", " ", "a", ".", " ", "x">>
TBlank  == <<" ">>

\* the subject name: an upper-case letter (titles carry it in lower case)
\* and a character that is a wildcard when the name is used as a pattern
Names == { <<"A", ".">> }

NoSub == [s \in {} |-> <<>>]

BaseNode ==
    [tag |-> "article", marks |-> {}, str |-> NoText, text |-> TOther,
     sub |-> NoSub, times |-> NoSub, href |-> NoText, anchors |-> <<>>,
     faulty |-> FALSE]

One(sel, t) == [s \in {sel} |-> t]

Art1 ==
    [BaseNode EXCEPT !.text = TBoth,
                     !.sub = [s \in {"h3", ".wEwyrc"} |->
                                 IF s = "h3" THEN TBoth ELSE <<"x", "x">>],
                     !.times = One(".r0bn4c", << [n |-> 3, w |-> "Horas"] >>),
                     !.anchors = << <<".", "/", "x">> >>]

ArtOther ==
    [BaseNode EXCEPT !.sub = One("h3", TOther),
                     !.times = One(".WW6dff", << [n |-> 7, w |-> "dias"] >>),
                     !.anchors = << NoText, <<"/", "y">> >>]

ArtEmptyH3 ==
    [BaseNode EXCEPT !.text = TBoth,
                     !.sub = [s \in {"h3", "h4"} |->
                                 IF s = "h3" THEN TBlank ELSE TBoth],
                     !.anchors = << <<"h", ":", "/", "/", "p">> >>]

LinkNode ==
    [BaseNode EXCEPT !.tag = "a", !.marks = {".DY5T1d"},
                     !.text = <<" ">> \o TBoth,
                     !.sub = One("h3", <<>>),
                     !.href = <<"/", "y">>,
                     !.anchors = << <<".", "/", "x">> >>]

ArtOld ==
    [BaseNode EXCEPT !.text = TBoth,
                     !.sub = One(".JtKRv", TBoth),
                     !.times = One(".WW6dff", << [n |-> 10, w |-> "dias"] >>)]

ArtNoParse ==
    [BaseNode EXCEPT !.text = TBoth,
                     !.sub = [s \in {"h4", ".st"} |->
                                 IF s = "h4" THEN TBoth ELSE <<"x">>],
                     !.times = One("time", << [n |-> 2, w |-> "ontem"] >>)]

ArtBare ==
    [BaseNode EXCEPT !.text = TBoth, !.sub = One(".ipQwMb", TBoth)]

ArtShort ==
    [BaseNode EXCEPT !.text = TShort,
                     !.sub = One("h4", TShort),
                     !.anchors = << <<"/", "y">> >>]

Xr ==
    [BaseNode EXCEPT !.tag = "div", !.marks = {".xrnccd"},
                     !.text = TBoth,
                     !.sub = One(".mCBkyc", TBoth)]

DivPlain ==
    [BaseNode EXCEPT !.tag = "div", !.text = TOnlyAb,
                     !.sub = One("h3", TOnlyAb)]

AFallback ==
    [BaseNode EXCEPT !.tag = "a", !.str = TOnlyAb, !.text = TOnlyAb,
                     !.href = <<".", "/", "z">>]

Faulty ==
    [BaseNode EXCEPT !.text = TBoth, !.sub = One("h3", TBoth), !.faulty = TRUE]

\* a document holds handles of its nodes; El gives the node behind a handle
Nodes == {"Art1", "ArtOther", "ArtEmptyH3", "LinkNode", "ArtOld", "ArtNoParse",
          "ArtBare", "ArtShort", "Xr", "DivPlain", "AFallback", "Faulty"}

El(id) ==
    CASE id = "Art1" -> Art1
      [] id = "ArtOther" -> ArtOther
      [] id = "ArtEmptyH3" -> ArtEmptyH3
      [] id = "LinkNode" -> LinkNode
      [] id = "ArtOld" -> ArtOld
      [] id = "ArtNoParse" -> ArtNoParse
      [] id = "ArtBare" -> ArtBare
      [] id = "ArtShort" -> ArtShort
      [] id = "Xr" -> Xr
      [] id = "DivPlain" -> DivPlain
      [] id = "AFallback" -> AFallback
      [] id = "Faulty" -> Faulty

RECURSIVE SeqsUpTo(_, _)
SeqsUpTo(S, n) ==
    IF n = 0 THEN { <<>> }
    ELSE LET shorter == SeqsUpTo(S, n - 1)
         IN  shorter \cup { Append(q, x) : q \in shorter, x \in S }

Range(q) == { q[i] : i \in DOMAIN q }

\* documents: up to MaxDocLen nodes, each node shape at most once
RECURSIVE DistinctSeqsUpTo(_, _)
DistinctSeqsUpTo(S, n) ==
    IF n = 0 THEN { <<>> }
    ELSE LET shorter == DistinctSeqsUpTo(S, n - 1)
         IN  shorter \cup
             { q \in { Append(r, x) : r \in shorter, x \in S } :
                   Cardinality(Range(q)) = Len(q) }

Docs == DistinctSeqsUpTo(Nodes, MaxDocLen)

-----------------------------------------------------------------------------
(* FieldExtractor *)

Falsy(t) == t = NoText \/ t = <<>>

\* index of the first selector of the list that select_one finds in the node
RECURSIVE FirstSelFrom(_, _, _)
FirstSelFrom(fn, sels, k) ==
    IF k > Len(sels) THEN 0
    ELSE IF sels[k] \in DOMAIN fn THEN k
    ELSE FirstSelFrom(fn, sels, k + 1)

\* CascadeText going on past a match whose text is empty
RECURSIVE FirstNonEmptyFrom(_, _, _)
FirstNonEmptyFrom(fn, sels, k) ==
    IF k > Len(sels) THEN 0
    ELSE IF sels[k] \in DOMAIN fn /\ Strip(fn[sels[k]]) # <<>> THEN k
    ELSE FirstNonEmptyFrom(fn, sels, k + 1)

CascadeTextNonEmpty(fn, sels, default) ==
    LET k == FirstNonEmptyFrom(fn, sels, 1)
    IN  IF k = 0 THEN default ELSE Strip(fn[sels[k]])

\* for selector in sels: e = select_one(selector); if e: get_text; break
CascadeText(fn, sels, default) ==
    LET k == FirstSelFrom(fn, sels, 1)
    IN  IF k = 0 THEN default ELSE Strip(fn[sels[k]])

CascadePhrase(fn, sels, default) ==
    LET k == FirstSelFrom(fn, sels, 1)
    IN  IF k = 0 THEN default ELSE fn[sels[k]]

TitleSelectorsScraper == <<"h3", "h4", ".JtKRv", ".ipQwMb", ".mCBkyc">>
TitleSelectorsBackup == <<"h3", "h4", "a.DY5T1d", ".JtKRv", ".ipQwMb", ".mCBkyc">>
SourceSelectors == <<".wEwyrc", ".vr1PYe", ".CEMjEf">>
TimeSelectors == <<".r0bn4c", ".WW6dff", "time">>
DescSelectorsScraper == <<".st", ".Y3v8qd">>
DescSelectorsBackup == <<".Y3v8qd", ".st">>

TitleSelectors(v) ==
    IF v = "backup" THEN TitleSelectorsBackup ELSE TitleSelectorsScraper

MinTitleLenScraper == 10
MinTitleLenBackup == 6
MinTitleLen(v) == IF v = "backup" THEN MinTitleLenBackup ELSE MinTitleLenScraper

\* TitleTooShort off by one
TitleTooShortOffByOne(v, title) == Len(title) <= MinTitleLen(v)

\* len(title) < 10 (scraper), len(title) < 6 (backup)
TitleTooShort(v, title) == Len(title) < MinTitleLen(v)

\* the title as both variants select it: the first matching sub-selector,
\* then the node's own text when that left nothing and the node is an <a>
SelectTitle(v, el) ==
    LET t == CascadeText(el.sub, TitleSelectors(v), NoText)
    IN  IF Falsy(t) /\ el.tag = "a" THEN Strip(el.text) ELSE t

Origin ==
    <<"h", "t", "t", "p", "s", ":", "/", "/", "n", "e", "w", "s", ".",
      "g", "o", "o", "g", "l", "e", ".", "c", "o", "m">>

\* NormalizeHref keeping the dot of "./"
NormalizeHrefKeepDot(href) ==
    IF Falsy(href) THEN href
    ELSE IF StartsWith(href, <<".", "/">>) THEN Origin \o href
    ELSE IF StartsWith(href, <<"/">>) THEN Origin \o href
    ELSE href

\* _normalize_gnews_href, and the same rewrite inline in _extract_article_data
NormalizeHref(href) ==
    IF Falsy(href) THEN href
    ELSE IF StartsWith(href, <<".", "/">>) THEN Origin \o Tail(href)
    ELSE IF StartsWith(href, <<"/">>) THEN Origin \o href
    ELSE href

RECURSIVE FirstWithHref(_, _)
FirstWithHref(anchors, k) ==
    IF k > Len(anchors) THEN 0
    ELSE IF anchors[k] # NoText THEN k
    ELSE FirstWithHref(anchors, k + 1)

\* scraper: link_element = element if element.name == 'a' else element.find('a')
LinkScraper(el) ==
    LET href == IF el.tag = "a" THEN el.href
                ELSE IF el.anchors # <<>> THEN el.anchors[1]
                ELSE NoText
    IN  IF Falsy(href) THEN NoText ELSE NormalizeHref(href)

\* backup: link_el = el if el.name == "a" else el.find("a", href=True)
LinkBackup(el) ==
    LET k == FirstWithHref(el.anchors, 1)
        href == IF el.tag = "a" THEN (IF el.href = NoText THEN <<>> ELSE el.href)
                ELSE IF k # 0 THEN el.anchors[k]
                ELSE <<>>
    IN  NormalizeHref(href)

LinkOf(v, el) == IF v = "backup" THEN LinkBackup(el) ELSE LinkScraper(el)

NoPhrase == << [n |-> 0, w |-> "<none>"] >>
NoRecord == [none |-> TRUE]

\* _extract_article_data of google_news_scraper.py / main.py.
\* outcome: "raised" (exception caught, None), "no_title", "short",
\* "irrelevant" (None), "record"
ExtractArticleData(el, name, now) ==
    LET title == SelectTitle("scraper", el)
        tt == CascadePhrase(el.times, TimeSelectors, NoPhrase)
    IN  IF el.faulty THEN [outcome |-> "raised", title |-> NoText, rec |-> NoRecord]
        ELSE IF Falsy(title)
            THEN [outcome |-> "no_title", title |-> title, rec |-> NoRecord]
        ELSE IF TitleTooShort("scraper", title)
            THEN [outcome |-> "short", title |-> title, rec |-> NoRecord]
        ELSE IF ~Contains(LowerText(name), LowerText(title))
            THEN [outcome |-> "irrelevant", title |-> title, rec |-> NoRecord]
        ELSE [outcome |-> "record", title |-> title,
              rec |-> [title |-> title,
                       url |-> LinkScraper(el),
                       source |-> CascadeText(el.sub, SourceSelectors, NoText),
                       time_text |-> tt,
                       datetime |-> IF tt = NoPhrase THEN NoTime
                                    ELSE ParseTimeAgo("scraper", tt, now),
                       description |->
                           CascadeText(el.sub, DescSelectorsScraper, NoText)]]

\* the body of the candidate loop of main_backup.py up to the window filter;
\* no handler surrounds it, so "raised" leaves search_news
ExtractBackup(el, name, now) ==
    LET title == SelectTitle("backup", el)
        tt == CascadePhrase(el.times, TimeSelectors, <<>>)
    IN  IF el.faulty THEN [outcome |-> "raised", title |-> NoText, rec |-> NoRecord]
        ELSE IF Falsy(title)
            THEN [outcome |-> "no_title", title |-> title, rec |-> NoRecord]
        ELSE IF TitleTooShort("backup", title)
            THEN [outcome |-> "short", title |-> title, rec |-> NoRecord]
        ELSE [outcome |-> "record", title |-> title,
              rec |-> [title |-> title,
                       url |-> LinkBackup(el),
                       source |-> CascadeText(el.sub, SourceSelectors, <<>>),
                       time_text |-> tt,
                       datetime |-> IF FirstSelFrom(el.times, TimeSelectors, 1) = 0
                                    THEN NoTime
                                    ELSE ParseTimeAgo("backup", tt, now),
                       description |->
                           CascadeText(el.sub, DescSelectorsBackup, <<>>)]]

Extract(v, el, name, now) ==
    IF v = "backup" THEN ExtractBackup(el, name, now)
    ELSE ExtractArticleData(el, name, now)

\* PassesWindow with the lenient clause lost: a record without a timestamp
\* is dropped whenever a window was requested
PassesWindowStrict(d, article_time, now) ==
    d = 0 \/ (article_time # NoTime /\ IsWithinDays(article_time, d, now))

\* the window test of both loops:
\*   not days or not article_time or self._is_within_days(article_time, days)
PassesWindow(d, article_time, now) ==
    d = 0 \/ article_time = NoTime \/ IsWithinDays(article_time, d, now)

-----------------------------------------------------------------------------
(* CandidateScanner *)

SelectorsScraper ==
    <<"article", "[data-n-au]", ".JtKRv", ".xrnccd", ".WwrzSb", ".DY5T1d">>
SelectorsBackup == <<"article", ".xrnccd">>

StructSelectors(v) == IF v = "backup" THEN SelectorsBackup ELSE SelectorsScraper

NodeMatches(el, sel) ==
    IF sel = "article" THEN el.tag = "article" ELSE sel \in el.marks

\* soup.select(selector)
Select(d, sel) ==
    LET Test(id) == NodeMatches(El(id), sel) IN SelectSeq(d, Test)

\* scraper: soup.find_all(['a', 'div', 'article'],
\*                        string=re.compile(person_name, re.IGNORECASE))
FallbackScraper(d, name) ==
    LET Test(id) == /\ El(id).tag \in {"a", "div", "article"}
                    /\ El(id).str # NoText
                    /\ RegexSearchNoCase(name, El(id).str)
    IN  SelectSeq(d, Test)

\* backup: soup.find_all(["article", "div"])
FallbackBackup(d, name) ==
    LET Test(id) == El(id).tag \in {"article", "div"} IN SelectSeq(d, Test)

FallbackScan(v, d, name) ==
    IF v = "backup" THEN FallbackBackup(d, name) ELSE FallbackScraper(d, name)

-----------------------------------------------------------------------------
(* ArticleExtractionPipeline: search_news *)

Min(a, b) == IF a < b THEN a ELSE b

\* lst[:n] for n >= 0
Take(lst, n) == SubSeq(lst, 1, Min(Len(lst), n))

NoResult == [status |-> "none", value |-> <<>>]

DaysChoices == {0, 7}

IdleParser == time_text = <<>> /\ parsed = NoTime
IdleLink == link_node = BaseNode /\ link_out = NoText
IdleResolver ==
    /\ units = <<>> /\ sessions = <<>> /\ results = <<>>
    /\ workers = 1 /\ use_browser = TRUE /\ resolve_final = TRUE

Init ==
    /\ pc = "start"
    /\ variant \in Variants
    /\ person_name \in Names
    /\ days \in DaysChoices
    /\ max_results \in 1..MaxResultsBound
    /\ doc \in Docs
    /\ selIdx = 1
    /\ evaluated = <<>>
    /\ usedFallback = FALSE
    /\ found_articles = <<>>
    /\ pos = 0
    /\ articles = <<>>
    /\ log = <<>>
    /\ result = NoResult
    /\ IdleParser
    /\ IdleLink
    /\ IdleResolver

\* session.get + raise_for_status succeed, the document is parsed
FetchOk ==
    /\ pc = "start"
    /\ pc' = "scan"
    /\ UNCHANGED <<pipelineVars, time_text, parsed, link_node, link_out,
                   resolverVars>>

\* What search_news answers when session.get or raise_for_status raises:
\* google_news_scraper.py catches it and returns [], main.py re-raises it as
\* Exception("Erro na busca: ..."), main_backup.py has no handler
FetchFailure(v) ==
    IF v = "scraper" THEN [status |-> "returned", value |-> <<>>]
                     ELSE [status |-> "raised", value |-> <<>>]

FetchFail ==
    /\ pc = "start"
    /\ pc' = "done"
    /\ result' = FetchFailure(variant)
    /\ UNCHANGED <<variant, person_name, days, max_results, doc, selIdx,
                   evaluated, usedFallback, found_articles, pos, articles, log,
                   time_text, parsed, link_node, link_out,
                   resolverVars>>

\* TrySelector without the break: every selector is evaluated and the last
\* one that matched supplies the candidates
TrySelectorNoBreak ==
    /\ pc = "scan"
    /\ LET sel == StructSelectors(variant)[selIdx]
           found == Select(doc, sel)
           kept == IF found # <<>> THEN found ELSE found_articles
       IN  /\ evaluated' = Append(evaluated, sel)
           /\ found_articles' = kept
           /\ selIdx' = selIdx + 1
           /\ pc' = IF selIdx < Len(StructSelectors(variant)) THEN "scan"
                    ELSE IF kept # <<>> THEN "loop" ELSE "fallback"
    /\ UNCHANGED <<variant, person_name, days, max_results, doc, usedFallback,
                   pos, articles, log, result,
                   time_text, parsed, link_node, link_out,
                   resolverVars>>

\* one turn of the selector cascade
TrySelector ==
    /\ pc = "scan"
    /\ LET sel == StructSelectors(variant)[selIdx]
           found == Select(doc, sel)
       IN  /\ evaluated' = Append(evaluated, sel)
           /\ IF found # <<>>
              THEN /\ found_articles' = found
                   /\ pc' = "loop"
                   /\ selIdx' = selIdx
              ELSE /\ found_articles' = found_articles
                   /\ selIdx' = selIdx + 1
                   /\ pc' = IF selIdx = Len(StructSelectors(variant))
                            THEN "fallback" ELSE "scan"
    /\ UNCHANGED <<variant, person_name, days, max_results, doc, usedFallback,
                   pos, articles, log, result,
                   time_text, parsed, link_node, link_out,
                   resolverVars>>

\* if not found_articles: the fallback scan
Fallback ==
    /\ pc = "fallback"
    /\ found_articles' = FallbackScan(variant, doc, person_name)
    /\ usedFallback' = TRUE
    /\ pc' = "loop"
    /\ UNCHANGED <<variant, person_name, days, max_results, doc, selIdx,
                   evaluated, pos, articles, log, result,
                   time_text, parsed, link_node, link_out,
                   resolverVars>>

\* the loop over every candidate, without the slice
ScanLimitAll(v, cands, maxr) == Len(cands)

\* how many candidates the loop may take:
\* scraper iterates found_articles[:max_results * 2], backup all of them
ScanLimit(v, cands, maxr) ==
    IF v = "backup" THEN Len(cands) ELSE Min(Len(cands), maxr * 2)

\* the loop takes another candidate (backup tests the count at the loop top)
LoopContinues ==
    /\ pos < ScanLimit(variant, found_articles, max_results)
    /\ variant = "backup" => Len(articles) < max_results

\* BreaksAfter with the break lost
BreaksAfterNever(v, arts, maxr) == FALSE

\* break after an append (scraper tests the count after appending)
BreaksAfter(v, arts, maxr) == v # "backup" /\ Len(arts) >= maxr

\* LoopPc leaving the loop when a candidate raised (break for continue)
LoopPcBreakOnRaise(v, outcome, keep, arts, maxr) ==
    IF outcome = "raised" \/ (keep /\ BreaksAfter(v, arts, maxr))
    THEN "return" ELSE "loop"

\* where the loop goes after an iteration: `break` after an append that
\* reached the count (scraper), otherwise the next candidate; a candidate
\* that produced nothing (None, or an exception caught at `continue`) never
\* leaves the loop
LoopPc(v, outcome, keep, arts, maxr) ==
    IF keep /\ BreaksAfter(v, arts, maxr) THEN "return" ELSE "loop"

\* one iteration of the candidate loop
Examine ==
    /\ pc = "loop"
    /\ LoopContinues
    /\ LET id == found_articles[pos + 1]
           ext == Extract(variant, El(id), person_name, Now0)
           reads == /\ ext.outcome = "record"
                    /\ days # 0
                    /\ ext.rec.datetime # NoTime
       IN  /\ ~(variant = "backup" /\ ext.outcome = "raised")
           /\ \E tick \in 0..MaxTick :
                /\ tick = 0 \/ reads
                /\ LET keep == /\ ext.outcome = "record"
                               /\ PassesWindow(days, ext.rec.datetime, Now0 + tick)
                       arts == IF keep THEN Append(articles, ext.rec) ELSE articles
                   IN  /\ articles' = arts
                       /\ log' = Append(log,
                              [node |-> id,
                               outcome |-> IF ext.outcome # "record" THEN ext.outcome
                                           ELSE IF keep THEN "accepted" ELSE "filtered",
                               title |-> ext.title,
                               rec |-> ext.rec,
                               tnow |-> IF reads THEN Now0 + tick ELSE NoTime])
                       /\ pc' = LoopPc(variant, ext.outcome, keep, arts, max_results)
    /\ pos' = pos + 1
    /\ UNCHANGED <<variant, person_name, days, max_results, doc, selIdx,
                   evaluated, usedFallback, found_articles, result,
                   time_text, parsed, link_node, link_out,
                   resolverVars>>

\* main_backup.py: an exception in the loop body leaves search_news
ExamineRaises ==
    /\ pc = "loop"
    /\ LoopContinues
    /\ variant = "backup"
    /\ Extract(variant, El(found_articles[pos + 1]), person_name, Now0).outcome
          = "raised"
    /\ pc' = "done"
    /\ result' = [status |-> "raised", value |-> <<>>]
    /\ UNCHANGED <<variant, person_name, days, max_results, doc, selIdx,
                   evaluated, usedFallback, found_articles, pos, articles, log,
                   time_text, parsed, link_node, link_out,
                   resolverVars>>

\* return articles[:max_results]
Return ==
    /\ pc = "return" \/ (pc = "loop" /\ ~LoopContinues)
    /\ result' = [status |-> "returned", value |-> Take(articles, max_results)]
    /\ pc' = "done"
    /\ UNCHANGED <<variant, person_name, days, max_results, doc, selIdx,
                   evaluated, usedFallback, found_articles, pos, articles, log,
                   time_text, parsed, link_node, link_out,
                   resolverVars>>

\* the candidate loop and the return of search_news as a function of the
\* candidate list; ticks[j] is the clock tick at candidate j's window test
RECURSIVE RunLoopFrom(_, _, _, _, _, _, _)
RunLoopFrom(v, cands, ticks, name, d, maxr, arts) ==
    IF cands = <<>> THEN [status |-> "returned", value |-> Take(arts, maxr)]
    ELSE IF v = "backup" /\ Len(arts) >= maxr
        THEN [status |-> "returned", value |-> Take(arts, maxr)]
    ELSE LET ext == Extract(v, El(Head(cands)), name, Now0)
             keep == /\ ext.outcome = "record"
                     /\ PassesWindow(d, ext.rec.datetime, Now0 + Head(ticks))
             arts2 == IF keep THEN Append(arts, ext.rec) ELSE arts
         IN  IF v = "backup" /\ ext.outcome = "raised"
                 THEN [status |-> "raised", value |-> <<>>]
             ELSE IF keep /\ v # "backup" /\ Len(arts2) >= maxr
                 THEN [status |-> "returned", value |-> Take(arts2, maxr)]
             ELSE RunLoopFrom(v, Tail(cands), Tail(ticks), name, d, maxr, arts2)

RunLoop(v, cands, ticks, name, d, maxr) ==
    LET n == ScanLimit(v, cands, maxr)
    IN  RunLoopFrom(v, Take(cands, n), Take(ticks, n), name, d, maxr, <<>>)

Next ==
    \/ FetchOk
    \/ FetchFail
    \/ TrySelector
    \/ Fallback
    \/ Examine
    \/ ExamineRaises
    \/ Return

Spec == Init /\ [][Next]_vars

-----------------------------------------------------------------------------
(* Runs of _parse_time_ago alone *)

Words == {"minutos", "Horas", "dias", "semana", "mês", "mes", "meses",
          "anos", "ontem"}
Counts == {2, 3000}
Items == [n : Counts, w : Words]
Phrases == SeqsUpTo(Items, MaxItems)

IdlePipeline ==
    /\ person_name = <<"A", ".">> /\ days = 0 /\ max_results = 1 /\ doc = <<>>
    /\ selIdx = 1 /\ evaluated = <<>> /\ usedFallback = FALSE
    /\ found_articles = <<>> /\ pos = 0 /\ articles = <<>> /\ log = <<>>
    /\ result = NoResult

InitTime ==
    /\ pc = "parse"
    /\ variant \in Variants
    /\ time_text \in Phrases
    /\ parsed = NoTime
    /\ IdlePipeline
    /\ IdleLink
    /\ IdleResolver

Parse ==
    /\ pc = "parse"
    /\ parsed' = ParseTimeAgo(variant, time_text, Now0)
    /\ pc' = "parsed"
    /\ UNCHANGED <<pipelineVars, time_text, link_node, link_out,
                   resolverVars>>

NextTime == Parse

SpecTime == InitTime /\ [][NextTime]_vars

-----------------------------------------------------------------------------
(* Runs of the link extraction alone *)

Hrefs == SeqsUpTo({".", "/", "x"}, MaxHrefLen) \cup {NoText}
AnchorHrefs == {NoText, <<>>, <<".", "/", "x">>, <<"/", "x">>, <<"x">>}

LinkNodes ==
    { [BaseNode EXCEPT !.tag = t, !.href = h, !.anchors = a] :
        t \in {"a"}, h \in Hrefs, a \in SeqsUpTo(AnchorHrefs, MaxAnchors) }
    \cup
    { [BaseNode EXCEPT !.tag = "div", !.anchors = a] :
        a \in SeqsUpTo(AnchorHrefs, MaxAnchors) }

InitLink ==
    /\ pc = "link"
    /\ variant \in Variants
    /\ link_node \in LinkNodes
    /\ link_out = NoText
    /\ IdlePipeline
    /\ IdleParser
    /\ IdleResolver

ExtractLink ==
    /\ pc = "link"
    /\ link_out' = LinkOf(variant, link_node)
    /\ pc' = "linked"
    /\ UNCHANGED <<pipelineVars, time_text, parsed, link_node,
                   resolverVars>>

NextLink == ExtractLink

SpecLink == InitLink /\ [][NextLink]_vars

-----------------------------------------------------------------------------
(* Link resolution: get_final_url_complete of src/main_backup.py ("backup") *)
(* and of src/resolutor_de_url.py ("resolutor").  A link is text, as an     *)
(* href is; None is NoText.                                                 *)

MaxLinks == 2       \* links in a batch
MaxWorkers == 2     \* largest worker cap

ResolverVariants == {"backup", "resolutor"}

Scheme == SubSeq(Origin, 1, 8)
AggregatorHost == SubSeq(Origin, 9, Len(Origin))

\* link specimens: two links of the aggregator, a publisher's address, and a
\* publisher's address whose query names the aggregator
LAgg1 == Origin \o <<"/", "a">>
LAgg2 == Origin \o <<"/", "b">>
LPub == Scheme \o <<"p", "/", "a">>
LPubRef == Scheme \o <<"p", "/", "?">> \o AggregatorHost

\* addresses a redirect chain or the browser can end at
Terminals == {LAgg1, LPub, LPubRef}

\* the addresses a GET of url, or a navigation to it, can end at: an empty
\* url is refused before anything is fetched
TerminalsOf(url) == IF Falsy(url) THEN {} ELSE Terminals

\* "news.google.com" in url
MentionsAggregator(url) == Contains(AggregatorHost, url)

\* a request tier that never accepts an address
RequestNeverResolves(v, url, r_url) == FALSE

\* the test on the address the redirect-following GET ended at
RequestResolves(v, url, r_url) ==
    IF v = "backup" THEN ~Falsy(r_url) /\ ~MentionsAggregator(r_url)
    ELSE r_url # url /\ ~MentionsAggregator(r_url)

\* a browser tier that returns whatever address the browser shows
BrowserResolvesAlways(v, final_url) == TRUE

\* the test on driver.current_url
BrowserResolves(v, final_url) ==
    IF v = "backup" THEN ~Falsy(final_url) /\ ~MentionsAggregator(final_url)
    ELSE ~MentionsAggregator(final_url)

\* print(...) of main_backup.py; resolutor_de_url.py prints nothing
Logged(v, out, tag, what) ==
    IF v = "backup" THEN Append(out, [tag |-> tag, what |-> what]) ELSE out

NoSession == [created |-> FALSE, live |-> FALSE, users |-> {}]

NewUnit(link, at) ==
    [pc |-> at,             \* position of the resolution
     link |-> link,         \* the article's link
     url |-> link,          \* argument of get_final_url_complete
     r_url |-> NoText,      \* r.url
     req_error |-> FALSE,   \* whether requests.get raised
     driver |-> 0,          \* the session bound to `driver` (0: unbound)
     nav |-> "none",        \* how driver.get ended
     settled |-> FALSE,     \* whether time.sleep ran
     final_url |-> NoText,  \* final_url
     failure |-> "none",    \* the exception caught by the Selenium handler
     site |-> "none",       \* the return statement taken
     ret |-> NoText,        \* the value returned
     out |-> <<>>,          \* what was printed
     delivered |-> NoText]  \* the article's link after the caller's step

\* return <value> at the return statement <site>
Returns(u, site, value, out) ==
    [u EXCEPT !.pc = "returned", !.site = site, !.ret = value, !.out = out]

\* the browser tier enabled whatever the flag
BrowserAlways == TRUE

\* the browser tier is enabled (the flag of the single-link resolution)
BrowserEnabled == use_browser

\* the tier that follows a request tier that did not resolve
AfterRequestTier(v, u, out) ==
    IF BrowserEnabled
    THEN [u EXCEPT !.pc = "acquire", !.out = out]
    ELSE Returns(u, "end", NoText, Logged(v, out, "nao_conseguiu_sair", ""))

\* if not google_news_url: return None; requests.get(..., allow_redirects=True)
Request(i) ==
    /\ units[i].pc = "start"
    /\ LET u == units[i]
           out0 == Logged(variant, u.out, "iniciando", "")
       IN  IF variant = "backup" /\ Falsy(u.url)
           THEN units' = [units EXCEPT
                    ![i] = Returns(u, "empty", NoText,
                                   Logged(variant, u.out, "url_vazia", ""))]
           ELSE \/ \* requests.get raises
                   units' = [units EXCEPT
                       ![i] = AfterRequestTier(variant,
                                  [u EXCEPT !.req_error = TRUE],
                                  Logged(variant, out0, "requests_erro",
                                         "request failed"))]
                \/ \E t \in TerminalsOf(u.url) :
                       LET u1 == [u EXCEPT !.r_url = t]
                           out1 == Logged(variant, out0, "requests_final", "")
                       IN  units' = [units EXCEPT ![i] =
                               IF RequestResolves(variant, u.url, t)
                               THEN Returns(u1, "requests", t,
                                        Logged(variant, out1, "requests_ok", ""))
                               ELSE AfterRequestTier(variant, u1, out1)]
    /\ UNCHANGED <<pc, pipelineVars, time_text, parsed, link_node, link_out,
                   sessions, results, workers, use_browser, resolve_final>>

\* a driver kept in a module-level variable: the live session of another
\* unit is taken when there is one
SharedSessionId(i, sess) ==
    IF \E d \in DOMAIN sess : sess[d].live
    THEN CHOOSE d \in DOMAIN sess : sess[d].live
    ELSE i

\* the session webdriver.Chrome(...) binds to `driver`: a new one, the
\* unit's own
NewSessionId(i, sess) == i

\* Options(), Service(ChromeDriverManager().install()), webdriver.Chrome(...)
Acquire(i) ==
    /\ units[i].pc = "acquire"
    /\ \/ \* the driver cannot be installed or started: `driver` stays unbound
          /\ units' = [units EXCEPT ![i].pc = "handler",
                                    ![i].failure = "no driver"]
          /\ UNCHANGED sessions
       \/ LET d == NewSessionId(i, sessions)
          IN  /\ units' = [units EXCEPT ![i].pc = "navigate", ![i].driver = d]
              /\ sessions' = [sessions EXCEPT ![d].created = TRUE,
                                              ![d].live = TRUE]
    /\ UNCHANGED <<pc, pipelineVars, time_text, parsed, link_node, link_out,
                   results, workers, use_browser, resolve_final>>

\* a command of unit i on session d
Uses(sess, d, i) == [sess EXCEPT ![d].users = @ \cup {i}]

\* driver.set_page_load_timeout(20) (main_backup.py); driver.get(url)
Navigate(i) ==
    /\ units[i].pc = "navigate"
    /\ \E how \in {"ok", "timeout", "crash"} :
          /\ how # "crash" => TerminalsOf(units[i].url) # {}
          /\ units' = [units EXCEPT
                ![i].nav = how,
                ![i].pc = IF how = "ok" THEN "read" ELSE "handler",
                ![i].failure =
                    IF how = "ok" THEN "none"
                    ELSE IF how = "timeout" THEN "navigation timeout"
                    ELSE "browser crashed"]
    /\ sessions' = Uses(sessions, units[i].driver, i)
    /\ UNCHANGED <<pc, pipelineVars, time_text, parsed, link_node, link_out,
                   results, workers, use_browser, resolve_final>>

\* time.sleep(...); final_url = driver.current_url
ReadAddress(i) ==
    /\ units[i].pc = "read"
    /\ LET u == [units[i] EXCEPT !.settled = TRUE]
       IN  \/ units' = [units EXCEPT
                  ![i] = [u EXCEPT !.pc = "handler",
                                   !.failure = "address not read"]]
           \/ \E f \in Terminals :
                  units' = [units EXCEPT
                      ![i] = [u EXCEPT !.pc = "quit", !.final_url = f,
                                       !.out = Logged(variant, u.out,
                                                      "selenium_final", "")]]
    /\ sessions' = Uses(sessions, units[i].driver, i)
    /\ UNCHANGED <<pc, pipelineVars, time_text, parsed, link_node, link_out,
                   results, workers, use_browser, resolve_final>>

\* driver.quit()
QuitSession(sess, d, i) == [Uses(sess, d, i) EXCEPT ![d].live = FALSE]

\* driver.quit(); the test on final_url; return final_url or return None
Quit(i) ==
    /\ units[i].pc = "quit"
    /\ LET u == units[i]
       IN  units' = [units EXCEPT ![i] =
               IF BrowserResolves(variant, u.final_url)
               THEN Returns(u, "selenium", u.final_url,
                        Logged(variant, u.out, "selenium_ok", ""))
               ELSE Returns(u, "end", NoText,
                        Logged(variant, u.out, "nao_conseguiu_sair", ""))]
    /\ sessions' = QuitSession(sessions, units[i].driver, i)
    /\ UNCHANGED <<pc, pipelineVars, time_text, parsed, link_node, link_out,
                   results, workers, use_browser, resolve_final>>

\* the handler that releases nothing
HandlerReleaseNone(sess, d, i) == sess

\* the handler's driver.quit(): main_backup.py tries it and swallows the
\* NameError of an unbound `driver`, resolutor_de_url.py tests
\* 'driver' in locals() first
HandlerRelease(sess, d, i) == IF d = 0 THEN sess ELSE QuitSession(sess, d, i)

\* except Exception as e: print, driver.quit(); then return None
Handler(i) ==
    /\ units[i].pc = "handler"
    /\ LET u == units[i]
           out1 == Logged(variant, u.out, "selenium_erro", u.failure)
       IN  units' = [units EXCEPT ![i] =
               Returns(u, "end", NoText,
                       Logged(variant, out1, "nao_conseguiu_sair", ""))]
    /\ sessions' = HandlerRelease(sessions, units[i].driver, i)
    /\ UNCHANGED <<pc, pipelineVars, time_text, parsed, link_node, link_out,
                   results, workers, use_browser, resolve_final>>

\* inputs of a direct call
ResolveLinks == {LAgg1, LPub, LPubRef, <<>>}

InitResolve ==
    /\ pc = "resolve"
    /\ variant \in ResolverVariants
    /\ \E l \in ResolveLinks : units = <<NewUnit(l, "start")>>
    /\ sessions = <<NoSession>>
    /\ results = <<>>
    /\ workers = 1
    /\ use_browser \in BOOLEAN
    /\ resolve_final = TRUE
    /\ IdlePipeline
    /\ IdleParser
    /\ IdleLink

NextResolve ==
    \E i \in DOMAIN units :
        \/ Request(i)
        \/ Acquire(i)
        \/ Navigate(i)
        \/ ReadAddress(i)
        \/ Quit(i)
        \/ Handler(i)

SpecResolve == InitResolve /\ [][NextResolve]_vars

\* every step of a resolution ends: the GET and the page load run under a
\* timeout, the settle wait is fixed
SpecResolveLive == SpecResolve /\ WF_vars(NextResolve)

-----------------------------------------------------------------------------
(* The batch: the loop of the /search endpoint of src/main_backup.py,      *)
(* which resolves the link of each article with get_final_url_complete     *)
(* (of either file), run by a pool of `workers` workers (the loop itself   *)
(* is the pool of one worker).                                             *)

\* resolutions in progress
Active == { i \in DOMAIN units : units[i].pc \in {"start"} \cup
                {"acquire", "navigate", "read", "quit", "handler"} }

\* a pool that starts every queued resolution at once
PoolUnbounded == TRUE

\* the pool has a free worker
PoolHasRoom == Cardinality(Active) < workers

\* a["url"] = final, whatever get_final_url_complete returned
DeliveredAlwaysFinal(link, final) == final

\* an append that replaces the list
InsertReplacing(res, rec) == <<rec>>

\* if final: a["url"] = final
DeliveredLink(link, final) == IF ~Falsy(final) THEN final ELSE link

\* articles.append(NewsArticle(...))
Insert(res, rec) == Append(res, rec)

\* the next article of the loop: its link goes to get_final_url_complete
\* when resolve_final is set and the link names the aggregator
Dispatch(i) ==
    /\ pc = "batch"
    /\ units[i].pc = "queued"
    /\ \A j \in 1..(i - 1) : units[j].pc # "queued"
    /\ PoolHasRoom
    /\ units' = [units EXCEPT ![i] =
           IF resolve_final /\ MentionsAggregator(units[i].link)
           THEN [units[i] EXCEPT !.pc = "start",
                                 !.url = NormalizeHref(units[i].link)]
           ELSE [units[i] EXCEPT !.pc = "returned", !.site = "skipped"]]
    /\ UNCHANGED <<pc, pipelineVars, time_text, parsed, link_node, link_out,
                   sessions, results, workers, use_browser, resolve_final>>

\* the caller's step after get_final_url_complete returned
Collect(i) ==
    /\ units[i].pc = "returned"
    /\ LET url == DeliveredLink(units[i].link, units[i].ret)
       IN  /\ units' = [units EXCEPT ![i].pc = "done", ![i].delivered = url]
           /\ results' = Insert(results, [link |-> units[i].link, url |-> url])
    /\ UNCHANGED <<pc, pipelineVars, time_text, parsed, link_node, link_out,
                   sessions, workers, use_browser, resolve_final>>

\* return SearchResponse(...): every article has been handled
Finish ==
    /\ pc = "batch"
    /\ \A i \in DOMAIN units : units[i].pc = "done"
    /\ pc' = "batch_done"
    /\ UNCHANGED <<pipelineVars, time_text, parsed, link_node, link_out,
                   resolverVars>>

\* links of the articles of a batch
BatchLinks == {LAgg1, LAgg2, LPub}

InitBatch ==
    /\ pc = "batch"
    /\ variant \in ResolverVariants
    /\ \E ls \in DistinctSeqsUpTo(BatchLinks, MaxLinks) :
          /\ ls # <<>>
          /\ units = [i \in DOMAIN ls |-> NewUnit(ls[i], "queued")]
          /\ sessions = [i \in DOMAIN ls |-> NoSession]
    /\ results = <<>>
    /\ workers \in 1..MaxWorkers
    /\ use_browser \in BOOLEAN
    /\ resolve_final \in BOOLEAN
    /\ IdlePipeline
    /\ IdleParser
    /\ IdleLink

NextBatch ==
    \/ \E i \in DOMAIN units :
          \/ Dispatch(i)
          \/ Request(i)
          \/ Acquire(i)
          \/ Navigate(i)
          \/ ReadAddress(i)
          \/ Quit(i)
          \/ Handler(i)
          \/ Collect(i)
    \/ Finish

SpecBatch == InitBatch /\ [][NextBatch]_vars

-----------------------------------------------------------------------------
(* Properties of the pipeline (specification Spec) *)

Returned == pc = "done" /\ result.status = "returned"

LogEntries == { log[i] : i \in 1..Len(log) }

\* the records appended so far, read off the log
RECURSIVE AcceptedRecs(_)
AcceptedRecs(l) ==
    IF l = <<>> THEN <<>>
    ELSE IF Head(l).outcome = "accepted"
         THEN <<Head(l).rec>> \o AcceptedRecs(Tail(l))
         ELSE AcceptedRecs(Tail(l))

\* C1: every record search_news returns, and every record extraction
\* materializes, has a title that contains the subject name, case-insensitively.
C1_TitleContainsSubject ==
    /\ \A e \in LogEntries :
          e.rec # NoRecord => ContainsNoCase(person_name, e.rec.title)
    /\ Returned =>
          \A i \in 1..Len(result.value) :
              ContainsNoCase(person_name, result.value[i].title)

\* C2: an extracted record is kept iff no window was requested, or it has no
\* timestamp, or its timestamp is not older than now minus `days` days; the
\* record of 10 days ago is dropped with days = 7, the record whose phrase
\* did not parse is kept; the kept records are exactly the accumulated ones.
C2_TimeWindowFilter ==
    /\ \A e \in LogEntries :
          e.rec # NoRecord =>
              /\ (e.outcome = "accepted") <=>
                    \/ days = 0
                    \/ e.rec.datetime = NoTime
                    \/ /\ e.tnow # NoTime
                       /\ e.rec.datetime >= e.tnow - days * MinutesPerDay
              /\ e.outcome \in {"accepted", "filtered"}
              /\ (days = 7 /\ e.rec.datetime = Now0 - 10 * MinutesPerDay)
                    => e.outcome = "filtered"
              /\ (e.rec.time_text = << [n |-> 2, w |-> "ontem"] >>)
                    => (e.rec.datetime = NoTime /\ e.outcome = "accepted")
    /\ articles = AcceptedRecs(log)

\* C2 witness: with days = 7, one record of 10 days ago was dropped and one
\* record whose phrase did not parse was kept
C2_Witness ==
    /\ days = 7
    /\ \E e \in LogEntries :
          e.outcome = "filtered" /\ e.rec.datetime = Now0 - 10 * MinutesPerDay
    /\ \E e \in LogEntries :
          /\ e.outcome = "accepted"
          /\ e.rec.time_text = << [n |-> 2, w |-> "ontem"] >>
          /\ e.rec.datetime = NoTime

\* C3: search_news never returns more than max_results records, and once
\* max_results records are accumulated no further candidate is examined.
C3_StopsAtMaxResults ==
    [][ /\ Len(articles) >= max_results => log' = log
        /\ result'.status = "returned" => Len(result'.value) <= max_results
      ]_vars

\* C3 witness: the run returned max_results records and left candidates
\* within the scan limit unexamined
C3_Witness ==
    /\ Returned
    /\ Len(result.value) = max_results
    /\ pos < ScanLimit(variant, found_articles, max_results)

\* whether the scan is over (the candidate list is settled)
Scanned == pc \in {"loop", "return", "done"} /\ evaluated # <<>>

SomeNodeMatches(sel) == \E i \in 1..Len(doc) : NodeMatches(El(doc[i]), sel)

\* C4: the selectors are tried in the fixed order; every selector evaluated
\* before the last one matched nothing, so nothing is evaluated after a
\* match; without the fallback the candidates are exactly the matches of the
\* last selector evaluated, the first one with a match.
C4_FirstSuccessWins ==
    LET sels == StructSelectors(variant)
        n == Len(evaluated)
    IN  /\ n <= Len(sels)
        /\ evaluated = SubSeq(sels, 1, n)
        /\ \A j \in 1..(n - 1) : ~SomeNodeMatches(sels[j])
        /\ (Scanned /\ ~usedFallback) =>
              /\ SomeNodeMatches(sels[n])
              /\ found_articles = Select(doc, sels[n])

\* C4 witness: the first selector matched and a later selector of the list,
\* which would match too, was not evaluated
C4_Witness ==
    /\ Scanned
    /\ ~usedFallback
    /\ Len(evaluated) = 1
    /\ \E j \in 2..Len(StructSelectors(variant)) :
          SomeNodeMatches(StructSelectors(variant)[j])
    /\ found_articles = Select(doc, "article")

\* C5: the fallback scan is used exactly when no structural selector matches;
\* its candidates are exactly the a / div / article elements whose visible
\* text contains the subject name, case-insensitively; an empty candidate
\* list gives an empty result.
C5_FallbackBySubjectText ==
    LET Generic(id) == /\ El(id).tag \in {"a", "div", "article"}
                       /\ ContainsNoCase(person_name, El(id).text)
    IN  Scanned =>
          /\ usedFallback <=>
                \A j \in 1..Len(StructSelectors(variant)) :
                    ~SomeNodeMatches(StructSelectors(variant)[j])
          /\ usedFallback => found_articles = SelectSeq(doc, Generic)
          /\ (Returned /\ found_articles = <<>>) => result.value = <<>>

-----------------------------------------------------------------------------
(* Properties of the parser (specification SpecTime) *)

\* the items of phrase t that a rule matches
RuleHits(rule, t) == { i \in 1..Len(t) : LowerWord(t[i].w) \in rule.words }

\* minutes in one unit named by a word, a week counting 7 days, a month 30
\* days and a year 365 days
WordMinutes(w) ==
    CASE w \in {"minuto", "minutos"} -> 1
      [] w \in {"hora", "horas"} -> 60
      [] w \in {"dia", "dias"} -> 24 * 60
      [] w \in {"semana", "semanas"} -> 7 * 24 * 60
      [] w \in {"mês", "mes", "meses", "mêses"} -> 30 * 24 * 60
      [] w \in {"ano", "anos"} -> 365 * 24 * 60

\* now minus n units for the phrase t, by the first rule of the table that
\* matches t and the leftmost item that rule matches; NoTime without a match
ExpectedInstant(rules, t) ==
    LET matching == { k \in 1..Len(rules) : RuleHits(rules[k], t) # {} }
    IN  IF matching = {} THEN NoTime
        ELSE LET k == CHOOSE a \in matching : \A b \in matching : a <= b
                 hits == RuleHits(rules[k], t)
                 i == CHOOSE a \in hits : \A b \in hits : a <= b
             IN  Now0 - t[i].n * WordMinutes(LowerWord(t[i].w))

\* C6 as stated: the first matching rule of the table decides and the result
\* is now minus n units whenever a rule matches; absent without a match.
C6_FirstRuleLinearOffset ==
    pc = "parsed" => parsed = ExpectedInstant(TimeRules(variant), time_text)

\* C6 amended: as above when now minus n units is a representable datetime;
\* when it lies before datetime.min the timestamp is absent (no error).
C6_FirstRuleLinearOffsetInRange ==
    pc = "parsed" =>
        LET e == ExpectedInstant(TimeRules(variant), time_text)
        IN  parsed = IF e < MinDatetime THEN NoTime ELSE e

\* C6 witness: a phrase with a minutes item before an hours item, parsed by
\* google_news_scraper.py, whose table lists hours first: now minus 2 hours
C6_Witness ==
    /\ pc = "parsed"
    /\ variant = "scraper"
    /\ time_text = << [n |-> 2, w |-> "minutos"], [n |-> 2, w |-> "Horas"] >>
    /\ parsed = Now0 - 2 * 60

-----------------------------------------------------------------------------
(* Properties of the field extractor (specification Spec) *)

MinOf(S) == CHOOSE a \in S : \A b \in S : a <= b

\* C7 as stated: the title is the text of the first sub-selector whose text
\* is non-empty (an empty match does not stop the cascade); the node's own
\* text is used only when no sub-selector gives a title and the node is <a>.
C7_FirstNonEmptyTitle ==
    \A e \in LogEntries :
        e.outcome # "raised" =>
            LET sels == TitleSelectors(variant)
                el == El(e.node)
                nonEmpty == { k \in 1..Len(sels) :
                                 /\ sels[k] \in DOMAIN el.sub
                                 /\ Strip(el.sub[sels[k]]) # <<>> }
            IN  IF nonEmpty # {}
                    THEN e.title = Strip(el.sub[sels[MinOf(nonEmpty)]])
                ELSE IF el.tag = "a" THEN e.title = Strip(el.text)
                ELSE Falsy(e.title)

\* C7 amended: the title is the text of the first sub-selector that matches
\* an element, empty or not (an empty match stops the cascade); when that
\* leaves the title empty and the node is <a>, the node's own text is used.
C7_FirstMatchTitle ==
    \A e \in LogEntries :
        e.outcome # "raised" =>
            LET sels == TitleSelectors(variant)
                el == El(e.node)
                matched == { k \in 1..Len(sels) : sels[k] \in DOMAIN el.sub }
                first == IF matched = {} THEN NoText
                         ELSE Strip(el.sub[sels[MinOf(matched)]])
            IN  e.title = IF Falsy(first) /\ el.tag = "a"
                          THEN Strip(el.text) ELSE first

\* C7 witness: a candidate whose first matching sub-selector has empty text
\* and whose later sub-selector has a title was examined and got no title
C7_Witness ==
    \E e \in LogEntries :
        LET sels == TitleSelectors(variant)
            sub == El(e.node).sub
            matched == { k \in 1..Len(sels) : sels[k] \in DOMAIN sub }
        IN  /\ e.outcome = "no_title"
            /\ matched # {}
            /\ Strip(sub[sels[MinOf(matched)]]) = <<>>
            /\ \E k \in matched : Strip(sub[sels[k]]) # <<>>
            /\ e.title = <<>>
            /\ e.rec = NoRecord

\* C8: a candidate with no title or a title below the threshold gives no
\* record; a candidate gives no record only for that, for an irrelevant
\* title (not in main_backup.py) or an exception, never for a missing
\* source, time text or snippet; every returned record has a title of at
\* least the threshold.
C8_TitleThreshold ==
    LET threshold == IF variant = "backup" THEN MinTitleLenBackup
                     ELSE MinTitleLenScraper
        Bad(t) == Falsy(t) \/ Len(t) < threshold
    IN  /\ \A e \in LogEntries :
              /\ Bad(e.title) => e.rec = NoRecord
              /\ e.rec = NoRecord =>
                    \/ El(e.node).faulty
                    \/ Bad(e.title)
                    \/ /\ variant # "backup"
                       /\ ~ContainsNoCase(person_name, e.title)
        /\ Returned =>
              \A i \in 1..Len(result.value) : ~Bad(result.value[i].title)

\* C8 witness: a record without source, time text and snippet was returned
\* and a candidate with a title below the threshold gave none
C8_Witness ==
    /\ Returned
    /\ \E i \in 1..Len(result.value) :
          /\ Falsy(result.value[i].source)
          /\ Falsy(result.value[i].description)
          /\ result.value[i].time_text \in {NoPhrase, <<>>}
    /\ \E e \in LogEntries : e.outcome = "short" /\ e.rec = NoRecord

-----------------------------------------------------------------------------
(* Isolation of extraction failures (specification Spec) *)

RemoveAt(q, i) == SubSeq(q, 1, i - 1) \o SubSeq(q, i + 1, Len(q))

\* the clock tick at each candidate's window test, as the run read it
Ticks ==
    [j \in 1..Len(found_articles) |->
        IF j <= Len(log) /\ log[j].tnow # NoTime THEN log[j].tnow - Now0 ELSE 0]

\* extraction of candidate i yields no record (exception or rejection)
FailsAt(i) ==
    Extract(variant, El(found_articles[i]), person_name, Now0).rec = NoRecord

\* C10 as stated: the output equals the output of the run on the candidate
\* sequence with a failing candidate i removed.
C10_FailureIsolated ==
    (Returned /\ evaluated # <<>>) =>
        \A i \in 1..Len(found_articles) :
            FailsAt(i) =>
                result = RunLoop(variant, RemoveAt(found_articles, i),
                                 RemoveAt(Ticks, i), person_name, days,
                                 max_results)

\* C10 amended: the output equals the output of the run with a failing
\* candidate i removed from the candidates the loop may examine (the first
\* 2 * max_results in google_news_scraper.py); no later candidate takes its
\* place in the scan.
C10_FailureIsolatedInScan ==
    (Returned /\ evaluated # <<>>) =>
        LET n == ScanLimit(variant, found_articles, max_results)
        IN  \A i \in 1..n :
                FailsAt(i) =>
                    result = RunLoopFrom(variant,
                                 RemoveAt(Take(found_articles, n), i),
                                 RemoveAt(Take(Ticks, n), i),
                                 person_name, days, max_results, <<>>)

\* C10 witness: in google_news_scraper.py a candidate raised, a later one
\* was rejected, and a candidate after both gave a returned record
C10_Witness ==
    /\ Returned
    /\ variant = "scraper"
    /\ Len(log) = 3
    /\ log[1].outcome = "raised"
    /\ log[2].outcome \in {"no_title", "short", "irrelevant"}
    /\ log[3].outcome = "accepted"
    /\ result.value = <<log[3].rec>>

\* C11: when the fetch of the search document fails, search_news ends at
\* once with a failure the caller can tell from a successful empty result
\* (an exception, where a search that found nothing returns the empty
\* list), without any record, and the run never fetches again.
C11_FetchFailureSurfaced ==
    [][ /\ (pc = "start" /\ pc' = "done") =>
            /\ result'.status = "raised"
            /\ result'.value = <<>>
            /\ articles' = <<>>
        /\ pc' # "start" ]_vars

\* C22: search_news of google_news_scraper.py and main.py examines only
\* the first 2 * max_results candidates, in document order; a later
\* candidate is never extracted and gives no record of the output, even
\* when fewer than max_results records were accepted, and the records
\* returned are the accepted ones in the order of their candidates.
C22_ScanCap ==
    variant # "backup" =>
        /\ Len(log) <= 2 * max_results
        /\ Len(log) <= Len(found_articles)
        /\ \A k \in 1..Len(log) : log[k].node = found_articles[k]
        /\ (Returned /\ evaluated # <<>>) =>
              result.value = Take(AcceptedRecs(log), max_results)

\* C22 witness: with max_results = 1 the first two candidates gave no
\* record, the third one, which would have given one, was never examined,
\* and nothing was returned
C22_Witness ==
    /\ Returned
    /\ variant = "scraper"
    /\ max_results = 1
    /\ days = 0
    /\ Len(found_articles) = 3
    /\ Len(log) = 2
    /\ result.value = <<>>
    /\ Extract(variant, El(found_articles[3]), person_name, Now0).rec
           # NoRecord

-----------------------------------------------------------------------------
(* Properties of the link extraction (specification SpecLink) *)

\* C9: the link comes from the node itself when it is <a>, otherwise from
\* its first descendant hyperlink (the first <a> in google_news_scraper.py,
\* the first <a> with an href in main_backup.py); "./p" and "/p" become the
\* origin followed by "/p", any other href is unchanged, and rewriting the
\* rewritten link changes nothing.
C9_LinkRewrite ==
    pc = "linked" =>
        LET el == link_node
            withHref == { k \in 1..Len(el.anchors) : el.anchors[k] # NoText }
            src == IF el.tag = "a" THEN el.href
                   ELSE IF variant = "backup"
                        THEN (IF withHref = {} THEN NoText
                              ELSE el.anchors[MinOf(withHref)])
                   ELSE IF el.anchors = <<>> THEN NoText
                   ELSE el.anchors[1]
            none == IF variant = "backup" THEN <<>> ELSE NoText
            expected ==
                IF Falsy(src) THEN none
                ELSE IF Len(src) >= 2 /\ src[1] = "." /\ src[2] = "/"
                    THEN Origin \o SubSeq(src, 2, Len(src))
                ELSE IF src[1] = "/" THEN Origin \o src
                ELSE src
        IN  /\ link_out = expected
            /\ NormalizeHref(link_out) = link_out

\* C9 witness: a node that is no <a>, with two descendant <a>, the first
\* with href "./x": the link is the origin followed by "/x"
C9_Witness ==
    /\ pc = "linked"
    /\ link_node.tag = "div"
    /\ Len(link_node.anchors) = 2
    /\ link_node.anchors[1] = <<".", "/", "x">>
    /\ link_node.anchors[2] = <<"/", "x">>
    /\ link_out = Origin \o <<"/", "x">>

-----------------------------------------------------------------------------
(* Properties of the link resolution (specifications SpecResolve, SpecBatch) *)

\* the host of an address: what follows the scheme, up to the path or query
RECURSIVE UpToPath(_)
UpToPath(t) ==
    IF t = <<>> \/ Head(t) \in {"/", "?"} THEN <<>>
    ELSE <<Head(t)>> \o UpToPath(Tail(t))

HostOf(url) ==
    IF StartsWith(url, Scheme)
    THEN UpToPath(SubSeq(url, Len(Scheme) + 1, Len(url)))
    ELSE <<>>

OnAggregator(url) == HostOf(url) = AggregatorHost

BrowserPcs == {"acquire", "navigate", "read", "quit", "handler"}

UnitReturned(i) == units[i].pc \in {"returned", "done"}

\* unit i created or used no browser session
NoSessionOf(i) ==
    /\ units[i].driver = 0
    /\ ~sessions[i].created
    /\ \A d \in DOMAIN sessions : i \notin sessions[d].users

\* the tier-1 GET of unit i ended at address t
GetEndedAt(i) == units[i].r_url

\* C12: whenever the redirect-following GET of an aggregator link ends at
\* an address whose host is no longer the aggregator's, the resolver returns
\* that address from the request tier (method direct-redirect) and the
\* resolution creates no browser session.
C12_DirectRedirect ==
    \A i \in DOMAIN units :
        ( /\ OnAggregator(units[i].url)
          /\ GetEndedAt(i) # NoText
          /\ ~OnAggregator(GetEndedAt(i)) ) =>
            /\ units[i].pc = "returned"
            /\ units[i].site = "requests"
            /\ units[i].ret = GetEndedAt(i)
            /\ NoSessionOf(i)

\* C13: with the browser fallback disabled no resolution enters the browser
\* tier or creates a browser session, and one whose request tier did not
\* resolve (the GET raised, or ended on the aggregator's host) returns from
\* the final return with no link (method unchanged): the resolved link is
\* the original link.
C13_BrowserDisabled ==
    ~use_browser =>
        \A i \in DOMAIN units :
            /\ units[i].pc \notin BrowserPcs
            /\ NoSessionOf(i)
            /\ ( /\ UnitReturned(i)
                 /\ \/ units[i].req_error
                    \/ GetEndedAt(i) # NoText /\ OnAggregator(GetEndedAt(i)) )
               => /\ units[i].site = "end"
                  /\ units[i].ret = NoText
                  /\ units[i].failure = "none"
                  /\ DeliveredLink(units[i].link, units[i].ret) = units[i].link

\* C13 witness: with the fallback disabled, a resolution whose GET raised
\* has returned no link
C13_Witness ==
    /\ ~use_browser
    /\ \E i \in DOMAIN units :
          /\ units[i].pc = "returned"
          /\ units[i].req_error
          /\ units[i].url = LAgg1
          /\ units[i].ret = NoText

\* C14: a resolution that has returned left no session live: every session
\* it created or used has been quit, whatever the exit path.
C14_SessionReleased ==
    \A i \in DOMAIN units :
        UnitReturned(i) =>
            \A d \in DOMAIN sessions :
                (d = units[i].driver \/ i \in sessions[d].users) =>
                    ~sessions[d].live

\* C14 witness: a resolution whose navigation timed out has returned, and
\* the session it had created is no longer live
C14_Witness ==
    \E i \in DOMAIN units :
        /\ units[i].pc = "returned"
        /\ units[i].nav = "timeout"
        /\ units[i].driver # 0
        /\ sessions[units[i].driver].created
        /\ ~sessions[units[i].driver].live

\* C15: once the navigation has completed or timed out, the resolution
\* waits the settle interval and reads the browser's address before it
\* returns; a timeout skips neither.
C15_SettleAfterTimeout ==
    \A i \in DOMAIN units :
        (UnitReturned(i) /\ units[i].nav \in {"ok", "timeout"}) =>
            /\ units[i].settled
            /\ units[i].final_url # NoText
                 \/ units[i].failure = "address not read"

\* C17: a failure while operating the browser session gives an outcome that
\* carries the failure description, which the outcome of an unchanged link
\* never does; the link still gets an outcome.
C17_ErrorOutcome ==
    \A i \in DOMAIN units :
        ( /\ UnitReturned(i)
          /\ units[i].driver # 0
          /\ units[i].failure # "none" ) =>
            \E k \in DOMAIN units[i].out :
                /\ units[i].out[k].tag = "selenium_erro"
                /\ units[i].out[k].what = units[i].failure

\* the outcome get_final_url_complete gives for a link, from what the
\* link's own request and browser did
OwnOutcome(u) ==
    IF u.site = "skipped" THEN [site |-> "skipped", ret |-> NoText]
    ELSE IF variant = "backup" /\ Falsy(u.url)
        THEN [site |-> "empty", ret |-> NoText]
    ELSE IF ~u.req_error /\ RequestResolves(variant, u.url, u.r_url)
        THEN [site |-> "requests", ret |-> u.r_url]
    ELSE IF ~use_browser \/ u.failure # "none"
        THEN [site |-> "end", ret |-> NoText]
    ELSE IF BrowserResolves(variant, u.final_url)
        THEN [site |-> "selenium", ret |-> u.final_url]
    ELSE [site |-> "end", ret |-> NoText]

\* the entries of the results collection for a link
EntriesOf(link) == { k \in DOMAIN results : results[k].link = link }

C18_WorkerCap == Cardinality(Active) <= workers

\* C18 witness: two resolutions in progress at once under a cap of two
C18_Witness ==
    /\ workers = 2
    /\ Cardinality(Active) = 2
    /\ \E i \in Active : units[i].pc = "navigate"

\* C19: the batch (of distinct links) completes only when every unit has
\* produced its result, and the collection then holds exactly one entry per
\* link, N in all, whatever the order in which the units completed.
C19_BatchComplete ==
    pc = "batch_done" =>
        /\ \A i \in DOMAIN units : units[i].pc = "done"
        /\ Len(results) = Len(units)
        /\ \A i \in DOMAIN units :
              Cardinality(EntriesOf(units[i].link)) = 1

\* C19 witness: a batch of two completed, the second link's result inserted
\* before the first's
C19_Witness ==
    /\ pc = "batch_done"
    /\ Len(units) = 2
    /\ Len(results) = 2
    /\ results[1].link = units[2].link
    /\ results[2].link = units[1].link

\* C20: the outcome of a unit is the one its own request and browser give,
\* whatever happened to the other units; no session is used by two units;
\* and while a unit has no result yet the batch can still take a step.
C20_UnitIndependence ==
    /\ \A i \in DOMAIN units :
          UnitReturned(i) =>
              [site |-> units[i].site, ret |-> units[i].ret]
                  = OwnOutcome(units[i])
    /\ \A d \in DOMAIN sessions : Cardinality(sessions[d].users) <= 1
    /\ pc = "batch" => ENABLED NextBatch

\* C20 witness: the first unit's browser crashed while the second unit was
\* navigating, and the second unit then resolved its link in the browser
C20_Witness ==
    /\ Len(units) = 2
    /\ units[1].pc = "done"
    /\ units[1].failure = "browser crashed"
    /\ units[2].pc = "done"
    /\ units[2].site = "selenium"
    /\ units[2].delivered = LPub
    /\ results[1].link = units[1].link

\* the request tier of unit i has run: the GET raised or ended somewhere
RequestAttempted(i) == units[i].req_error \/ units[i].r_url # NoText

\* the browser tier of unit i has been entered
BrowserEntered(i) ==
    \/ units[i].pc \in BrowserPcs
    \/ units[i].driver # 0
    \/ units[i].failure # "none"
    \/ units[i].final_url # NoText

\* the request tier of unit i ran and did not resolve: the GET raised, or
\* ended at an address naming the aggregator (or, in resolutor_de_url.py,
\* at the link itself)
RequestUnresolved(i) ==
    \/ units[i].req_error
    \/ /\ units[i].r_url # NoText
       /\ \/ MentionsAggregator(units[i].r_url)
          \/ variant = "resolutor" /\ units[i].r_url = units[i].url

\* the terminal state of a returned unit
TerminalState(u) ==
    IF u.site = "requests" THEN "resolved-direct"
    ELSE IF u.site = "selenium" THEN "resolved-browser"
    ELSE IF u.site = "end" /\ u.failure = "none" THEN "unchanged"
    ELSE IF u.site = "end" THEN "error"
    ELSE "none"

TerminalStates == {"resolved-direct", "resolved-browser", "unchanged", "error"}

\* the order of the tiers in the resolutions of the links in `which`
TiersInOrder(which) ==
    \A i \in DOMAIN units :
        units[i].url \in which =>
            /\ units[i].pc # "start" => RequestAttempted(i)
            /\ BrowserEntered(i) => RequestUnresolved(i)
            /\ units[i].pc = "returned" =>
                  TerminalState(units[i]) \in TerminalStates

\* a returned resolution takes no further step
NoStepAfterReturn ==
    \A i \in DOMAIN units :
        units[i].pc = "returned" => units'[i] = units[i]

AnyLink == ResolveLinks \cup BatchLinks
NonEmptyLink == { l \in AnyLink : ~Falsy(l) }

\* C21: every resolution eventually reaches one terminal state among
\* resolved-direct, resolved-browser, unchanged and error and takes no step
\* after it; it makes the request first, and enters the browser tier only
\* after the request tier failed to resolve.
C21_StateMachine ==
    /\ []TiersInOrder(AnyLink)
    /\ [][NoStepAfterReturn]_vars
    /\ <>(\A i \in DOMAIN units : units[i].pc = "returned")

\* C21 amended: the same for every resolution of a non-empty link; the
\* resolution of an empty link (main_backup.py) returns no link at once,
\* with no request and no browser step.
C21_StateMachineNonEmpty ==
    /\ []TiersInOrder(NonEmptyLink)
    /\ [](\A i \in DOMAIN units :
            (variant = "backup" /\ Falsy(units[i].url)
                /\ units[i].pc = "returned") =>
                /\ units[i].site = "empty" /\ units[i].ret = NoText
                /\ ~RequestAttempted(i) /\ ~BrowserEntered(i))
    /\ [][NoStepAfterReturn]_vars
    /\ <>(\A i \in DOMAIN units : units[i].pc = "returned")

\* C21 witness: a resolution whose GET ended on the aggregator went through
\* the browser tier and returned the browser's address
C21_Witness ==
    \E i \in DOMAIN units :
        /\ units[i].pc = "returned"
        /\ units[i].r_url = LAgg1
        /\ units[i].final_url = LPub
        /\ TerminalState(units[i]) = "resolved-browser"

\* C23: a link get_final_url_complete returns, from either tier, does not
\* contain the aggregator host; otherwise it returns no link.  The caller
\* replaces an article's link only with a returned link, and only when
\* resolution is requested and the article's link contains the aggregator
\* host; every other article keeps its link.
C23_ResolverOutput ==
    \A i \in DOMAIN units :
        LET u == units[i]
        IN  /\ UnitReturned(i) =>
                  /\ u.ret # NoText =>
                        /\ ~MentionsAggregator(u.ret)
                        /\ u.site \in {"requests", "selenium"}
                        /\ u.ret = IF u.site = "requests" THEN u.r_url
                                   ELSE u.final_url
                  /\ u.site \notin {"requests", "selenium"} => u.ret = NoText
            /\ u.pc = "done" =>
                  /\ u.delivered \in {u.link, u.ret}
                  /\ u.delivered # u.link =>
                        /\ u.ret # NoText
                        /\ resolve_final
                        /\ MentionsAggregator(u.link)
                  /\ (u.ret # NoText) => u.delivered = u.ret
                  /\ \A k \in EntriesOf(u.link) : results[k].url = u.delivered

\* C23 witness: of two articles, the one with a publisher's link kept it
\* without any resolution, the one with an aggregator link got the address
\* the browser ended at
C23_Witness ==
    /\ pc = "batch_done"
    /\ Len(units) = 2
    /\ units[1].link = LPub
    /\ units[1].site = "skipped"
    /\ units[1].delivered = LPub
    /\ units[2].link = LAgg1
    /\ units[2].r_url = LPubRef
    /\ units[2].site = "selenium"
    /\ units[2].delivered = LPub

====
